---- MODULE Spec2Model ----
(***************************************************************************)
(* Model of opl3-rs: the Opl3Chip wrapper (src/lib.rs) around the Nuked    *)
(* OPL3 engine.  The wrapper's eight entry points are translated from      *)
(* src/lib.rs; the engine primitives behind `mod bindings` are not part of *)
(* src/lib.rs and are modelled from the specification (register-write      *)
(* primitive, frame-count driven generation primitives, FIFO write queue   *)
(* with a "cycles until next write permitted" counter).                    *)
(***************************************************************************)
EXTENDS Integers, Sequences, FiniteSets

\* ---------------------------------------------------------------- bounds
\* destination buffers have 0..MaxLen elements
MaxLen == 5
\* internal time (native frames generated by one handle) is capped
MaxTime == 5
\* register writes issued on one handle are capped (write-ordering runs)
MaxWrites == 3
\* register writes issued on one handle are capped (buffer-check runs)
MaxPending == 1

\* ------------------------------------------------------ program constants
\* `if buffer.len() < 4` of the single-frame and 4ch-stream entry points
MinBufferLen == 4
\* samples of a 2-channel frame (left, right)
FrameLen2 == 2
\* samples of a 4-channel frame
FrameLen4 == 4
\* register address space: two banks of 256
RegSpace == 512
\* minimum settling delay between two applied buffered writes, in frames
MinDelay == 2

\* panic!("Buffer must be at least 4 samples long.")
BufferTooSmall == "Buffer must be at least 4 samples long."
\* panic!("Buffers must be at least 4 samples long.")
BuffersTooSmall == "Buffers must be at least 4 samples long."

\* ----------------------------------------------------------------- inputs
Rates == {0, 49716}
RegInputs == {32, 512}
ValInputs == {1, 2}
PendingVals == {1}
Lens == {0, MinBufferLen - 1, MinBufferLen, MaxLen}
RegDomain == {r % RegSpace : r \in RegInputs}

SingleFrameOps == {"generate", "generate_resampled", "generate_4ch", "generate_4ch_resampled"}
StreamOps == {"generate_stream", "generate_4ch_stream"}
GenOps == SingleFrameOps \cup StreamOps
WriteOps == {"write_register", "write_register_buffered"}

VARIABLES
  handle,   \* TRUE while an Opl3Chip value is alive and its state is defined
  chip,     \* Opl3Chip.chip: the engine state the handle owns
  issued,   \* history: mode of every write issued on this handle, by issue number
  lastOp    \* the last call made, its arguments and its observable outcome

vars == <<handle, chip, issued, lastOp>>

\* ------------------------------------------------- engine (spec-modelled)
\* Opl3Reset: zero-initialised state bound to the sample rate.
Opl3Reset(rate) ==
  [rate |-> rate, regs |-> [a \in RegDomain |-> 0], time |-> 0,
   cooldown |-> 0, queue |-> <<>>, applied |-> <<>>]

\* Opl3WriteReg: the write lands in the register latch at once.
\* `applied` logs (issue number, internal time) of every write that landed.
Opl3WriteReg(c, reg, v, id) ==
  [c EXCEPT !.regs[reg % RegSpace] = v,
            !.applied = Append(@, [id |-> id, at |-> c.time])]

\* Opl3WriteRegBuffered: the write joins the FIFO.
Opl3WriteRegBuffered(c, reg, v, id) ==
  [c EXCEPT !.queue = Append(@, [reg |-> reg, val |-> v, id |-> id])]

\* One native frame: time advances, the delay counter runs down, and the
\* head of the FIFO is applied once the counter has reached zero.
Tick(c) ==
  LET cd == IF c.cooldown > 0 THEN c.cooldown - 1 ELSE 0
      t == c.time + 1
  IN IF cd = 0 /\ c.queue # <<>>
       THEN LET w == Head(c.queue)
            IN [c EXCEPT !.time = t, !.cooldown = MinDelay,
                         !.queue = Tail(@),
                         !.regs[w.reg % RegSpace] = w.val,
                         !.applied = Append(@, [id |-> w.id, at |-> t])]
       ELSE [c EXCEPT !.time = t, !.cooldown = cd]

RECURSIVE Advance(_, _)
Advance(c, n) == IF n = 0 THEN c ELSE Advance(Tick(c), n - 1)

\* Generation primitives.  Each returns the engine state after the frames
\* it renders; the samples land in the destination as given by Written.
Opl3Generate(c) == Advance(c, 1)
Opl3GenerateResampled(c) == Advance(c, 1)
Opl3Generate4Ch(c) == Advance(c, 1)
Opl3Generate4ChResampled(c) == Advance(c, 1)

Opl3GenerateStream(c, numsamples) == Advance(c, numsamples)
Opl3Generate4ChStream(c, numsamples) == Advance(c, numsamples)

\* Indices of the destination the engine writes for `frames` frames of
\* `flen` samples each, starting at the buffer's first element.
Written(frames, flen) == 0..(frames * flen - 1)

\* ---------------------------------------------------------- call records
NoRegs == [a \in RegDomain |-> 0]

Call(op, outcome, len, len2, reg, val, frames, w1, w2, src) ==
  [op |-> op, outcome |-> outcome, len |-> len, len2 |-> len2, reg |-> reg,
   val |-> val, frames |-> frames, w1 |-> w1, w2 |-> w2, src |-> src]

GenCall(op, outcome, len, len2, frames, w1, w2, src) ==
  Call(op, outcome, len, len2, -1, -1, frames, w1, w2, src)

WriteCall(op, outcome, reg, val) ==
  Call(op, outcome, -1, -1, reg, val, 0, {}, {}, NoRegs)

Init ==
  /\ handle = FALSE
  /\ chip = Opl3Reset(0)
  /\ issued = <<>>
  /\ lastOp = Call("none", "ok", -1, -1, -1, -1, 0, {}, {}, NoRegs)

\* ------------------------------------------------------------- Opl3Chip
\* Opl3Chip::new
new(sample_rate) ==
  /\ chip' = Opl3Reset(sample_rate)
  /\ handle' = TRUE
  /\ issued' = <<>>
  /\ lastOp' = Call("new", "ok", -1, -1, -1, sample_rate, 0, {}, {}, NoRegs)

\* Outcomes of an engine call that stored samples at the index set w of a
\* buffer of len elements.  Inside the buffer the call returns.  A store
\* past the end of the slice is undefined behaviour with two outcomes:
\*   "ok"        - the stores hit nothing the program uses; the call returns
\*                 with the engine state as the engine left it;
\*   "undefined" - the stores hit live memory (the chip's own state or
\*                 anything else) or the process goes down; whatever the
\*                 call returns, the state of this handle is no longer
\*                 defined and nothing further is said about it.
Outcomes(w, len) == IF w \subseteq 0..(len - 1) THEN {"ok"} ELSE {"ok", "undefined"}

\* generate with the length check off by one
generate_short(L) ==
  /\ handle
  /\ IF L < MinBufferLen - 1
       THEN /\ chip' = chip
            /\ lastOp' = GenCall("generate", BufferTooSmall, L, -1, 0, {}, {}, NoRegs)
       ELSE /\ chip' = Opl3Generate(chip)
            /\ lastOp' = GenCall("generate", "ok", L, -1, 1, Written(1, FrameLen2), {}, chip.regs)
  /\ UNCHANGED <<handle, issued>>

\* Opl3Chip::generate
generate(L) ==
  /\ handle
  /\ IF L < MinBufferLen
       THEN /\ chip' = chip
            /\ lastOp' = GenCall("generate", BufferTooSmall, L, -1, 0, {}, {}, NoRegs)
       ELSE /\ chip' = Opl3Generate(chip)
            /\ lastOp' = GenCall("generate", "ok", L, -1, 1, Written(1, FrameLen2), {}, chip.regs)
  /\ UNCHANGED <<handle, issued>>

\* Opl3Chip::generate_resampled
generate_resampled(L) ==
  /\ handle
  /\ IF L < MinBufferLen
       THEN /\ chip' = chip
            /\ lastOp' = GenCall("generate_resampled", BufferTooSmall, L, -1, 0, {}, {}, NoRegs)
       ELSE /\ chip' = Opl3GenerateResampled(chip)
            /\ lastOp' = GenCall("generate_resampled", "ok", L, -1, 1, Written(1, FrameLen2), {}, chip.regs)
  /\ UNCHANGED <<handle, issued>>

\* write_register forwarding to the buffered primitive
write_register_deferred(reg, value) ==
  /\ handle
  /\ chip' = Opl3WriteRegBuffered(chip, reg, value, Len(issued) + 1)
  /\ issued' = Append(issued, "imm")
  /\ lastOp' = WriteCall("write_register", "ok", reg, value)
  /\ UNCHANGED handle

\* Opl3Chip::write_register
write_register(reg, value) ==
  /\ handle
  /\ chip' = Opl3WriteReg(chip, reg, value, Len(issued) + 1)
  /\ issued' = Append(issued, "imm")
  /\ lastOp' = WriteCall("write_register", "ok", reg, value)
  /\ UNCHANGED handle

\* write_register_buffered applying the write itself when nothing is queued
write_register_buffered_eager(reg, value) ==
  /\ handle
  /\ chip' = IF chip.queue = <<>>
               THEN Opl3WriteReg(chip, reg, value, Len(issued) + 1)
               ELSE Opl3WriteRegBuffered(chip, reg, value, Len(issued) + 1)
  /\ issued' = Append(issued, "buf")
  /\ lastOp' = WriteCall("write_register_buffered", "ok", reg, value)
  /\ UNCHANGED handle

\* write_register_buffered forwarding to the immediate primitive
write_register_buffered_now(reg, value) ==
  /\ handle
  /\ chip' = Opl3WriteReg(chip, reg, value, Len(issued) + 1)
  /\ issued' = Append(issued, "buf")
  /\ lastOp' = WriteCall("write_register_buffered", "ok", reg, value)
  /\ UNCHANGED handle

\* Opl3Chip::write_register_buffered
write_register_buffered(reg, value) ==
  /\ handle
  /\ chip' = Opl3WriteRegBuffered(chip, reg, value, Len(issued) + 1)
  /\ issued' = Append(issued, "buf")
  /\ lastOp' = WriteCall("write_register_buffered", "ok", reg, value)
  /\ UNCHANGED handle

\* Opl3Chip::generate_stream: buffer.len() is handed over as the frame count
generate_stream(L) ==
  /\ handle
  /\ \E o \in Outcomes(Written(L, FrameLen2), L) :
       /\ chip' = IF o = "ok" THEN Opl3GenerateStream(chip, L) ELSE chip
       /\ lastOp' = GenCall("generate_stream", o, L, -1, L, Written(L, FrameLen2), {}, chip.regs)
       /\ handle' = (o = "ok")
  /\ UNCHANGED issued

\* Opl3Chip::generate_4ch
generate_4ch(L) ==
  /\ handle
  /\ IF L < MinBufferLen
       THEN /\ chip' = chip
            /\ lastOp' = GenCall("generate_4ch", BufferTooSmall, L, -1, 0, {}, {}, NoRegs)
       ELSE /\ chip' = Opl3Generate4Ch(chip)
            /\ lastOp' = GenCall("generate_4ch", "ok", L, -1, 1, Written(1, FrameLen4), {}, chip.regs)
  /\ UNCHANGED <<handle, issued>>

\* generate_4ch_resampled checking the length after the engine has run
generate_4ch_resampled_late(L) ==
  /\ handle
  /\ chip' = Opl3Generate4ChResampled(chip)
  /\ IF L < MinBufferLen
       THEN lastOp' = GenCall("generate_4ch_resampled", BufferTooSmall, L, -1, 0, {}, {}, NoRegs)
       ELSE lastOp' = GenCall("generate_4ch_resampled", "ok", L, -1, 1, Written(1, FrameLen4), {}, chip.regs)
  /\ UNCHANGED <<handle, issued>>

\* Opl3Chip::generate_4ch_resampled
generate_4ch_resampled(L) ==
  /\ handle
  /\ IF L < MinBufferLen
       THEN /\ chip' = chip
            /\ lastOp' = GenCall("generate_4ch_resampled", BufferTooSmall, L, -1, 0, {}, {}, NoRegs)
       ELSE /\ chip' = Opl3Generate4ChResampled(chip)
            /\ lastOp' = GenCall("generate_4ch_resampled", "ok", L, -1, 1, Written(1, FrameLen4), {}, chip.regs)
  /\ UNCHANGED <<handle, issued>>

\* Opl3Chip::generate_4ch_stream: buffer1.len() is handed over as the frame
\* count; each frame puts two samples into each of the two buffers
generate_4ch_stream(L1, L2) ==
  /\ handle
  /\ IF L1 < MinBufferLen \/ L2 < MinBufferLen
       THEN /\ chip' = chip
            /\ lastOp' = GenCall("generate_4ch_stream", BuffersTooSmall, L1, L2, 0, {}, {}, NoRegs)
            /\ UNCHANGED handle
       ELSE \E o \in Outcomes(Written(L1, FrameLen2), L1) \cup Outcomes(Written(L1, FrameLen2), L2) :
              /\ chip' = IF o = "ok" THEN Opl3Generate4ChStream(chip, L1) ELSE chip
              /\ lastOp' = GenCall("generate_4ch_stream", o, L1, L2, L1,
                                   Written(L1, FrameLen2), Written(L1, FrameLen2), chip.regs)
              /\ handle' = (o = "ok")
  /\ UNCHANGED issued

\* ------------------------------------------------------- specifications
\* The caller may make any call at any time.  Runs are kept finite by
\* capping internal time and the number of writes issued on one handle.
TimeLeft(n) == chip.time + n <= MaxTime

\* All entry points with every buffer length and every register input.
Next ==
  \/ \E r \in Rates : new(r)
  \/ \E L \in Lens : TimeLeft(1) /\ generate(L)
  \/ \E L \in Lens : TimeLeft(1) /\ generate_resampled(L)
  \/ \E reg \in RegInputs, v \in PendingVals : Len(issued) < MaxPending /\ write_register(reg, v)
  \/ \E reg \in RegInputs, v \in PendingVals : Len(issued) < MaxPending /\ write_register_buffered(reg, v)
  \/ \E L \in Lens : TimeLeft(L) /\ generate_stream(L)
  \/ \E L \in Lens : TimeLeft(1) /\ generate_4ch(L)
  \/ \E L \in Lens : TimeLeft(1) /\ generate_4ch_resampled(L)
  \/ \E L1 \in Lens, L2 \in Lens : TimeLeft(L1) /\ generate_4ch_stream(L1, L2)

Spec == Init /\ [][Next]_vars

\* Longer write sequences, interleaved with generation calls of one or
\* several frames.
OrderLens == {MinBufferLen}
ValidRegs == {r \in RegInputs : r < RegSpace}

NextOrder ==
  \/ \E r \in Rates : new(r)
  \/ \E L \in OrderLens : TimeLeft(1) /\ generate(L)
  \/ \E L \in OrderLens : TimeLeft(1) /\ generate_resampled(L)
  \/ \E reg \in ValidRegs, v \in ValInputs : Len(issued) < MaxWrites /\ write_register(reg, v)
  \/ \E reg \in ValidRegs, v \in ValInputs : Len(issued) < MaxWrites /\ write_register_buffered(reg, v)
  \/ \E L \in OrderLens : TimeLeft(L) /\ generate_stream(L)
  \/ \E L \in OrderLens : TimeLeft(1) /\ generate_4ch(L)
  \/ \E L \in OrderLens : TimeLeft(1) /\ generate_4ch_resampled(L)
  \/ \E L \in OrderLens : TimeLeft(L) /\ generate_4ch_stream(L, L)

SpecOrder == Init /\ [][NextOrder]_vars

\* ------------------------------------------------------------- histories
Ids(q) == [i \in 1..Len(q) |-> q[i].id]
Numbers(n) == [i \in 1..n |-> i]
\* writes that have taken effect, by the mode they were issued in
BufApplied == SelectSeq(chip.applied, LAMBDA e : issued[e.id] = "buf")
ImmApplied == SelectSeq(chip.applied, LAMBDA e : issued[e.id] = "imm")
\* issue numbers of the writes issued in each mode, in issue order
BufIssued == SelectSeq(Numbers(Len(issued)), LAMBDA i : issued[i] = "buf")
ImmIssued == SelectSeq(Numbers(Len(issued)), LAMBDA i : issued[i] = "imm")
Failed(o) == o \notin {"ok", "undefined"}

\* ----------------------------------------------------------------- claims
\* C1: every single-frame generation call on a buffer shorter than 4
\* elements fails with the buffer-too-small outcome, and every such call on
\* a buffer of 4 or more elements succeeds.
C1_SingleFrameLength ==
  lastOp.op \in SingleFrameOps =>
    /\ lastOp.len < 4 => lastOp.outcome = BufferTooSmall
    /\ lastOp.len >= 4 => lastOp.outcome = "ok"

C1_Witness ==
  lastOp.op = "generate_4ch" /\ lastOp.len = 4 /\ lastOp.outcome = "ok"

\* C2: a single-frame generation call that fails its length check leaves
\* the engine state (registers, internal time, pending write queue) as it
\* was and writes no element of the destination buffer.
C2_FailedCallTouchesNothing ==
  [][(lastOp'.op \in SingleFrameOps /\ lastOp'.outcome = BufferTooSmall)
       => (chip' = chip /\ lastOp'.w1 = {} /\ lastOp'.frames = 0)]_vars

C2_Witness ==
  /\ lastOp.op = "generate" /\ lastOp.len = 3 /\ lastOp.outcome = BufferTooSmall
  /\ chip.queue # <<>>

\* C3 (as claimed): generate_stream on a buffer of L >= 1 elements succeeds,
\* requests L / 2 frames, writes every index below L and none at or above L.
C3_StreamFillsExactly ==
  (lastOp.op = "generate_stream" /\ lastOp.len >= 1) =>
    /\ lastOp.outcome = "ok"
    /\ lastOp.frames * FrameLen2 = lastOp.len
    /\ lastOp.w1 = 0..(lastOp.len - 1)

\* C4 (as claimed): generate_4ch_stream fails without touching the engine
\* when its buffers differ in length, and with equal non-empty lengths it
\* succeeds and writes exactly the indices of each buffer.
C4_StreamPair ==
  lastOp.op = "generate_4ch_stream" =>
    /\ lastOp.len # lastOp.len2 =>
         Failed(lastOp.outcome) /\ lastOp.frames = 0 /\ lastOp.w1 = {} /\ lastOp.w2 = {}
    /\ (lastOp.len = lastOp.len2 /\ lastOp.len >= 1) =>
         /\ lastOp.outcome = "ok"
         /\ lastOp.w1 = 0..(lastOp.len - 1)
         /\ lastOp.w2 = 0..(lastOp.len2 - 1)

\* C5 (as claimed): a write to an address outside 0..511 is rejected, and
\* no such address is ever applied or enqueued.
C5_AddressRange ==
  /\ (lastOp.op \in WriteOps /\ lastOp.reg \notin 0..511) => Failed(lastOp.outcome)
  /\ \A i \in 1..Len(chip.queue) : chip.queue[i].reg \in 0..511

\* C6 (as claimed): constructing with sample rate 0 fails, and every live
\* handle is bound to a positive sample rate.
C6_PositiveRate ==
  /\ (lastOp.op = "new" /\ lastOp.val = 0) => Failed(lastOp.outcome)
  /\ handle => chip.rate > 0

\* C7: buffered writes take effect in the order they were issued, none is
\* lost (those that have taken effect followed by those still queued are
\* exactly the buffered writes issued), and each takes effect at least the
\* minimum delay after the buffered write applied before it.
C7_FifoMinDelay ==
  /\ Ids(BufApplied) \o Ids(chip.queue) = BufIssued
  /\ \A i \in 2..Len(BufApplied) :
       BufApplied[i].at >= BufApplied[i - 1].at + MinDelay

C7_Witness ==
  /\ Len(BufApplied) >= 2
  /\ chip.queue # <<>>
  /\ issued = <<"buf", "buf", "buf">>

\* C8: when write_register returns the register holds the value written,
\* also while buffered writes are pending, and the first frame of the next
\* generation call is computed from that value.
C8_ImmediateEffect ==
  [][/\ lastOp'.op = "write_register" =>
          chip'.regs[lastOp'.reg % RegSpace] = lastOp'.val
     /\ (lastOp.op = "write_register" /\ lastOp'.op \in GenOps /\ lastOp'.frames >= 1) =>
          lastOp'.src[lastOp.reg % RegSpace] = lastOp.val]_vars

C8_Witness ==
  /\ lastOp.op \in GenOps /\ lastOp.frames >= 1
  /\ issued = <<"buf", "imm">>
  /\ chip.applied = <<[id |-> 2, at |-> 0], [id |-> 1, at |-> 1]>>
  /\ lastOp.src # NoRegs

\* C9 (as claimed): over both write modes, writes take effect in the order
\* they were issued: the k-th write to take effect is the k-th write issued.
C9_GlobalIssueOrder ==
  \A i \in 1..Len(chip.applied) : chip.applied[i].id = i

\* C9 (amended): the order of effect equals the issue order within each
\* write mode.  Every immediate write has taken effect, in issue order, when
\* its call returns, whether or not earlier buffered writes are still
\* queued; buffered writes take effect in issue order among themselves.
C9_PerModeOrder ==
  /\ Ids(ImmApplied) = ImmIssued
  /\ \A i \in 1..Len(BufApplied) : BufApplied[i].id = BufIssued[i]
  /\ \A i \in 1..Len(chip.queue) : issued[chip.queue[i].id] = "buf"

C9_Witness ==
  /\ issued = <<"buf", "imm", "buf">>
  /\ Ids(chip.applied) = <<2, 1>>
  /\ Ids(chip.queue) = <<3>>

\* C10: a write call of either mode leaves internal time where it was and
\* applies no buffered write; a buffered write is only ever applied by a
\* generation call.
C10_AppliedOnlyByGeneration ==
  [][/\ lastOp'.op \in WriteOps =>
          (chip'.time = chip.time /\ BufApplied' = BufApplied)
     /\ Len(BufApplied') > Len(BufApplied) => lastOp'.op \in GenOps]_vars

C10_Witness ==
  /\ lastOp.op = "write_register_buffered"
  /\ Len(chip.queue) >= 3
  /\ chip.time = 0
  /\ chip.applied = <<>>

====
